---- MODULE Spec2Model ----
(***************************************************************************)
(* FEiN: the personal-finance API of src/app/main.py, modelled as a state  *)
(* machine over its five relational tables (src/app/models.py).            *)
(*                                                                         *)
(* Money is kept in cents (Numeric(10, 2)); a datetime is kept as a whole  *)
(* number of hours, so that midnight of calendar day d is d * DayHours.    *)
(* A character string that the code inspects (a transaction name, matched  *)
(* with LIKE) is a sequence of one-character strings.                      *)
(***************************************************************************)
EXTENDS Integers, Sequences, FiniteSets, TLC

VARIABLES
    users,          \* table "user": rows [user_id, email]
    accounts,       \* table "transaction_account"
    transactions,   \* table "transaction"
    breakdowns,     \* table "transaction_breakdown"
    tags,           \* table "tag"
    assignments,    \* table "tag_assigned_to_transaction"
    seq,            \* autoincrement counters of the tables that lose rows
    placeholders,   \* history: ids of the transactions create_tag inserted
    last,           \* the last request served and the reply to it
    clock,          \* datetime.utcnow(), in minutes
    tokens,         \* the access tokens issued, each with its time of issue
    serving         \* the request each concurrent worker is serving, with
                    \* the point its handler has come to

vars == <<users, accounts, transactions, breakdowns, tags, assignments,
          seq, placeholders, last, clock, tokens, serving>>

store == <<users, accounts, transactions, breakdowns, tags, assignments, seq>>

----------------------------------------------------------------------------
(* Bounds of the exploration.                                              *)

MaxAccounts == 3
MaxTransactions == 2
MaxTags == 1
MaxBreakdowns == 2
MaxUsers == 4
MaxTokens == 2
MaxClock == 40
TickMinutes == 10
MaxWorkers == 2

(* Values of the requests.                                                 *)

NULL == 0

DayHours == 24

AdminEmail == "admin@fein.com"
AdminEmails == {AdminEmail}

Coffee == <<"C", "o", "f", "f", "e", "e">>

Midnight == 1 * DayHours
Noon == 1 * DayHours + 12

TagNames == {"Food"}

----------------------------------------------------------------------------
(* Helpers.                                                                *)

RECURSIVE SumOver(_, _)
SumOver(S, f) ==
    IF S = {} THEN 0
    ELSE LET x == CHOOSE y \in S : TRUE
         IN  f[x] + SumOver(S \ {x}, f)

RECURSIVE SeqsUpTo(_, _)
SeqsUpTo(S, n) ==
    IF n = 0 THEN {<<>>}
    ELSE LET shorter == SeqsUpTo(S, n - 1)
         IN  shorter \cup {Append(s, x) : s \in shorter, x \in S}

Digit(n) == <<"0", "1", "2", "3", "4", "5", "6", "7", "8", "9">>[n + 1]

\* str(n) of a non-negative integer, as the f-string formats it
RECURSIVE Str(_)
Str(n) == IF n < 10 THEN <<Digit(n)>> ELSE Str(n \div 10) \o <<Digit(n % 10)>>

\* SQL LIKE: "_" matches one character, "%" any run of characters
RECURSIVE Like(_, _)
Like(s, p) ==
    IF p = <<>> THEN s = <<>>
    ELSE IF Head(p) = "%"
         THEN Like(s, Tail(p)) \/ (s # <<>> /\ Like(Tail(s), p))
         ELSE /\ s # <<>>
              /\ (Head(p) = "_" \/ Head(p) = Head(s))
              /\ Like(Tail(s), Tail(p))

PlaceholderPattern ==
    <<"T", "a", "g", "_", "%", "_",
      "p", "l", "a", "c", "e", "h", "o", "l", "d", "e", "r">>

\* f"Tag_{new_tag.tag_id}_placeholder"
PlaceholderName(tag_id) ==
    <<"T", "a", "g", "_">> \o Str(tag_id) \o
    <<"_", "p", "l", "a", "c", "e", "h", "o", "l", "d", "e", "r">>

\* is_admin over an empty allow-list
is_admin_nobody(email) == FALSE

is_admin(email) == email \in AdminEmails

----------------------------------------------------------------------------
(* Access tokens (src/app/auth.py). A token is what jwt.encode made of it: *)
(* whether it has the three segments of a JWT, the key it was signed with, *)
(* and the claims of its payload, NULL for a claim it does not carry.      *)

SecretKey == "A1B2C3D4E5F6G7H8I9J0K"

AccessTokenMinutes == 30

\* data: [sub, email]; a sub that is no string is made one with str()
create_access_token(data, now) ==
    [well_formed |-> TRUE,
     key |-> SecretKey,
     sub |-> Str(data.sub),
     email |-> data.email,
     exp |-> now + AccessTokenMinutes]

\* jwt.decode without its validation of "exp"
expired_never(token, now) == FALSE

\* jwt.decode's validation of "exp": ExpiredSignatureError when exp <= now
expired(token, now) == token.exp # NULL /\ token.exp <= now

\* jwt.decode: the structure, then the signature, then the expiry
decode_access_token(token, now) ==
    IF ~token.well_formed \/ token.key # SecretKey
    THEN [status |-> 401, detail |-> "Invalid token"]
    ELSE IF expired(token, now)
    THEN [status |-> 401, detail |-> "Token has expired"]
    ELSE [status |-> 200, detail |-> ""]

Unauthenticated ==
    [status |-> 401, detail |-> "Invalid authentication credentials",
     user |-> [user_id |-> NULL, email |-> ""]]

\* every exception, the HTTPException of decode_access_token included, is
\* caught and answered with the same 401
get_current_user(token, now) ==
    IF decode_access_token(token, now).status # 200 THEN Unauthenticated
    ELSE IF token.sub = <<>> THEN Unauthenticated
    ELSE LET found == {u \in users : Str(u.user_id) = token.sub}
         IN  IF found = {} THEN Unauthenticated
             ELSE [status |-> 200, detail |-> "",
                   user |-> CHOOSE u \in found : TRUE]

NoToken == [well_formed |-> FALSE, key |-> "", sub |-> <<>>, email |-> "",
            exp |-> NULL]

\* auth_request: [email]; the name and the password hash of the new row are
\* read by no handler of the model
register(auth_request, now) ==
    IF \E u \in users : u.email = auth_request.email
    THEN [status |-> 400, detail |-> "Email already registered",
          users |-> users, access_token |-> NoToken]
    ELSE LET new_user == [user_id |-> Cardinality(users) + 1,
                          email |-> auth_request.email]
         IN  [status |-> 200, detail |-> "",
              users |-> users \cup {new_user},
              access_token |->
                  create_access_token([sub |-> new_user.user_id,
                                       email |-> new_user.email], now)]

\* the lookup that register makes of the email before anything is written
existing_user(auth_request) == {u \in users : u.email = auth_request.email}

\* db.add(new_user); db.commit(): the INSERT, at whatever time it comes after
\* the lookup. The unique index on user.email refuses a second row of the
\* email with an IntegrityError, which register does not catch: the server
\* answers 500 and the session is closed without the row
insert_user(auth_request, now) ==
    IF existing_user(auth_request) # {}
    THEN [status |-> 500, detail |-> "Internal Server Error",
          users |-> users, access_token |-> NoToken]
    ELSE LET new_user == [user_id |-> Cardinality(users) + 1,
                          email |-> auth_request.email]
         IN  [status |-> 200, detail |-> "",
              users |-> users \cup {new_user},
              access_token |->
                  create_access_token([sub |-> new_user.user_id,
                                       email |-> new_user.email], now)]

\* verified: what verify_password says of the password of the request
login(auth_request, verified, now) ==
    LET found == {u \in users : u.email = auth_request.email}
    IN  IF found = {} \/ ~verified
        THEN [status |-> 401, detail |-> "Invalid email or password",
              users |-> users, access_token |-> NoToken]
        ELSE LET user == CHOOSE u \in found : TRUE
             IN  [status |-> 200, detail |-> "",
                  users |-> users,
                  access_token |->
                      create_access_token([sub |-> user.user_id,
                                           email |-> user.email], now)]

----------------------------------------------------------------------------
(* Queries shared by the handlers.                                         *)

\* Transaction JOIN TransactionBreakdown JOIN TransactionAccount
\* WHERE TransactionAccount.user_id = user_id: one row per breakdown
transaction_join(user_id) ==
    {r \in transactions \X breakdowns \X accounts :
        /\ r[1].transaction_id = r[2].transaction_id
        /\ r[2].transaction_account_id = r[3].transaction_account_id
        /\ r[3].user_id = user_id}

\* the Transaction entities of that join (the ORM returns each entity once)
owned_transactions(user_id) == {r[1] : r \in transaction_join(user_id)}

transaction_of(transaction_id) ==
    {t \in transactions : t.transaction_id = transaction_id}

\* the lookup without the join to the caller's accounts
resolve_transaction_any(user, transaction_id) ==
    transaction_of(transaction_id)

\* the transaction a handler resolves for its caller: any for an admin,
\* one joined to the caller's accounts otherwise
resolve_transaction(user, transaction_id) ==
    IF is_admin(user.email)
    THEN transaction_of(transaction_id)
    ELSE {t \in owned_transactions(user.user_id) :
            t.transaction_id = transaction_id}

\* the account lookup without its filter on the caller
owned_account_of_anyone(user, transaction_account_id) ==
    {a \in accounts : a.transaction_account_id = transaction_account_id}

owned_account(user, transaction_account_id) ==
    {a \in accounts :
        /\ a.transaction_account_id = transaction_account_id
        /\ a.user_id = user.user_id}

tags_of_transaction(transaction_id) ==
    {g \in tags :
        \E ta \in assignments :
            ta.tag_id = g.tag_id /\ ta.transaction_id = transaction_id}

----------------------------------------------------------------------------
(* Read handlers: the response [status, rows] to a caller.                 *)

Response(status, rows) == [status |-> status, rows |-> rows]

\* the listing without its filter on the caller
get_accounts_of_everyone(user) == Response(200, accounts)

get_accounts(user) ==
    IF is_admin(user.email)
    THEN Response(200, accounts)
    ELSE Response(200, {a \in accounts : a.user_id = user.user_id})

get_transactions(user) ==
    IF is_admin(user.email)
    THEN Response(200,
            {t \in transactions :
                ~Like(t.transaction_name, PlaceholderPattern)})
    ELSE Response(200,
            {t \in owned_transactions(user.user_id) :
                ~Like(t.transaction_name, PlaceholderPattern)})

get_transaction_by_id(user, transaction_id) ==
    LET found == resolve_transaction(user, transaction_id)
    IN  IF found = {} THEN Response(404, {}) ELSE Response(200, found)

get_transaction_breakdowns(user, transaction_id) ==
    LET found == {b \in breakdowns :
                    /\ b.transaction_id = transaction_id
                    /\ owned_account(user, b.transaction_account_id) # {}}
    IN  IF found = {} THEN Response(404, {}) ELSE Response(200, found)

get_tags(user) ==
    IF is_admin(user.email)
    THEN Response(200, tags)
    ELSE Response(200,
            {g \in tags :
                \E ta \in assignments, t \in owned_transactions(user.user_id) :
                    /\ ta.tag_id = g.tag_id
                    /\ ta.transaction_id = t.transaction_id})

get_transaction_tags_for_user(user, transaction_id) ==
    IF is_admin(user.email)
    THEN Response(200, tags_of_transaction(transaction_id))
    ELSE IF \E t \in owned_transactions(user.user_id) :
                t.transaction_id = transaction_id
         THEN Response(200, tags_of_transaction(transaction_id))
         ELSE Response(403, {})

----------------------------------------------------------------------------
(* Reports.                                                                *)

\* func.sum(Transaction.amount): over every transaction for an admin, over
\* the rows of the join with the caller's breakdowns otherwise; "or 0.0"
\* when there is no row
get_total_spending(user) ==
    IF is_admin(user.email)
    THEN LET rows == {t \in transactions : t.amount > 0}
         IN  [status |-> 200,
              total_spent |-> SumOver(rows, [t \in rows |-> t.amount])]
    ELSE LET rows == {r \in transaction_join(user.user_id) : r[1].amount > 0}
         IN  [status |-> 200,
              total_spent |-> SumOver(rows, [r \in rows |-> r[1].amount])]

\* Tag JOIN TagAssignedToTransaction JOIN Transaction WHERE amount > 0,
\* and for a caller who is no admin JOIN TransactionBreakdown JOIN
\* TransactionAccount WHERE user_id = caller: one row per breakdown
category_join(user) ==
    IF is_admin(user.email)
    THEN {r \in tags \X assignments \X transactions :
            /\ r[1].tag_id = r[2].tag_id
            /\ r[2].transaction_id = r[3].transaction_id
            /\ r[3].amount > 0}
    ELSE {r \in tags \X assignments \X transactions \X breakdowns \X accounts :
            /\ r[1].tag_id = r[2].tag_id
            /\ r[2].transaction_id = r[3].transaction_id
            /\ r[3].amount > 0
            /\ r[3].transaction_id = r[4].transaction_id
            /\ r[4].transaction_account_id = r[5].transaction_account_id
            /\ r[5].user_id = user.user_id}

\* GROUP BY Tag.tag_name with func.sum(Transaction.amount): the dictionary
\* of the response, a key for every tag name that has a row
get_spending_by_category(user) ==
    LET rows == category_join(user)
        group(tag_name) == {r \in rows : r[1].tag_name = tag_name}
    IN  [status |-> 200,
         spending_by_category |->
            [tag_name \in {r[1].tag_name : r \in rows} |->
                SumOver(group(tag_name),
                        [r \in group(tag_name) |-> r[3].amount])]]

IsDigit(c) == c \in {"0", "1", "2", "3", "4", "5", "6", "7", "8", "9"}

DigitValue(c) == CHOOSE n \in 0..9 : Digit(n) = c

\* int() of a sequence of digits
RECURSIVE Number(_)
Number(cs) ==
    IF cs = <<>> THEN 0
    ELSE 10 * Number(SubSeq(cs, 1, Len(cs) - 1)) + DigitValue(cs[Len(cs)])

IsLeap(year) == year % 4 = 0 /\ (year % 100 # 0 \/ year % 400 = 0)

DaysInMonth(year, month) ==
    IF month = 2 THEN (IF IsLeap(year) THEN 29 ELSE 28)
    ELSE IF month \in {4, 6, 9, 11} THEN 30 ELSE 31

RECURSIVE DaysBeforeMonth(_, _)
DaysBeforeMonth(year, month) ==
    IF month = 1 THEN 0
    ELSE DaysBeforeMonth(year, month - 1) + DaysInMonth(year, month - 1)

\* date.toordinal(): the number of the day, 0001-01-01 being day 1
Ordinal(year, month, day) ==
    LET y == year - 1
    IN  y * 365 + (y \div 4) - (y \div 100) + (y \div 400)
        + DaysBeforeMonth(year, month) + day

ParseError == [ok |-> FALSE, value |-> NULL]

\* datetime.strptime(s, "%Y-%m-%d"): four digits of a year, "-", one or two
\* digits of a month, "-", one or two digits of a day of that month, and
\* nothing else; the value is midnight of that day, ValueError otherwise
strptime(s) ==
    LET dashes == {i \in 1..Len(s) : s[i] = "-"}
        digits(cs) == \A i \in 1..Len(cs) : IsDigit(cs[i])
    IN  IF Cardinality(dashes) # 2 \/ 5 \notin dashes THEN ParseError
        ELSE LET second == CHOOSE i \in dashes : i # 5
                 year == SubSeq(s, 1, 4)
                 month == SubSeq(s, 6, second - 1)
                 day == SubSeq(s, second + 1, Len(s))
             IN  IF \/ ~digits(year) \/ ~digits(month) \/ ~digits(day)
                    \/ Len(month) \notin {1, 2} \/ Len(day) \notin {1, 2}
                 THEN ParseError
                 ELSE IF \/ Number(year) < 1
                         \/ Number(month) \notin 1..12
                         \/ Number(day) \notin
                                1..DaysInMonth(Number(year), Number(month))
                 THEN ParseError
                 ELSE [ok |-> TRUE,
                       value |-> DayHours * Ordinal(Number(year),
                                                    Number(month),
                                                    Number(day))]

\* func.sum(Transaction.amount) over the rows with start <= date <= end and
\* amount > 0: the transactions for an admin, the rows of the join with the
\* caller's breakdowns otherwise; any exception, the ValueError of strptime
\* included, is caught and answered with 500
get_spending_by_date_range(user, start_date, end_date) ==
    LET start_date_parsed == strptime(start_date)
        end_date_parsed == strptime(end_date)
        within(t) == /\ t.date >= start_date_parsed.value
                     /\ t.date <= end_date_parsed.value
                     /\ t.amount > 0
    IN  IF ~start_date_parsed.ok \/ ~end_date_parsed.ok
        THEN [status |-> 500,
              detail |-> "Failed to calculate spending by date range."]
        ELSE IF is_admin(user.email)
        THEN LET rows == {t \in transactions : within(t)}
             IN  [status |-> 200,
                  total_spent |-> SumOver(rows, [t \in rows |-> t.amount])]
        ELSE LET rows == {r \in transaction_join(user.user_id) : within(r[1])}
             IN  [status |-> 200,
                  total_spent |->
                      SumOver(rows, [r \in rows |-> r[1].amount])]

\* TransactionBreakdown JOIN TransactionAccount JOIN User JOIN Transaction
breakdown_join ==
    {r \in breakdowns \X accounts \X users \X transactions :
        /\ r[2].transaction_account_id = r[1].transaction_account_id
        /\ r[2].user_id = r[3].user_id
        /\ r[4].transaction_id = r[1].transaction_id}

\* sum(earned_amount - spent_amount) OVER (PARTITION BY the account ORDER BY
\* Transaction.date): the frame runs from the partition's first row through
\* the current row and the rows of the same date
calculated_balance(r) ==
    LET frame == {q \in breakdown_join :
                    /\ q[1].transaction_account_id =
                            r[1].transaction_account_id
                    /\ q[4].date <= r[4].date}
    IN  SumOver(frame,
            [q \in frame |-> q[1].earned_amount - q[1].spent_amount])

\* the rows of the report, each with the breakdown it was computed from;
\* account_name: the name to filter by, or "" ("if account_name:")
get_exceeding_transactions(user, account_name) ==
    {[transaction_breakdown_id |-> r[1].transaction_breakdown_id,
      user_id |-> r[3].user_id,
      account_name |-> r[2].account_name,
      transaction_id |-> r[4].transaction_id,
      transaction_name |-> r[4].transaction_name,
      transaction_amount |-> r[1].spent_amount,
      transaction_date |-> r[4].date,
      calculated_balance |-> calculated_balance(r)] :
        r \in {q \in breakdown_join :
                /\ q[1].spent_amount > calculated_balance(q)
                /\ q[1].spent_amount > 0
                /\ account_name # "" => q[2].account_name = account_name
                /\ ~is_admin(user.email) => q[3].user_id = user.user_id}}

----------------------------------------------------------------------------
(* Write handlers. Each gives the reply to one request and the tables as   *)
(* the request leaves them: a request that raises leaves what it had       *)
(* committed and loses what it had only added to its session (get_db       *)
(* closes the session without a commit).                                   *)

tables ==
    [accounts |-> accounts,
     transactions |-> transactions,
     breakdowns |-> breakdowns,
     tags |-> tags,
     assignments |-> assignments,
     seq |-> seq]

Reply(status, detail, db) == [status |-> status, detail |-> detail, db |-> db]

next_account_id == Cardinality(accounts) + 1
next_tag_id == Cardinality(tags) + 1
next_breakdown_id == Cardinality(breakdowns) + 1

\* create_account written as an upsert (db.merge) on the owner and the
\* name: it overwrites the caller's account of that name
create_account_overwriting(user, account_name, balance) ==
    Reply(200, "",
        [tables EXCEPT !.accounts =
            {a \in @ : a.user_id # user.user_id
                        \/ a.account_name # account_name} \cup
            {[transaction_account_id |-> next_account_id,
              account_name |-> account_name,
              balance |-> balance,
              user_id |-> user.user_id]}])

create_account(user, account_name, balance) ==
    Reply(200, "",
        [tables EXCEPT !.accounts = @ \cup
            {[transaction_account_id |-> next_account_id,
              account_name |-> account_name,
              balance |-> balance,
              user_id |-> user.user_id]}])

\* POST /accounts/ as the client sends it, with a token: Depends on
\* get_current_user, whose 401 is the reply if it raises
create_account_request(token, now, account_name, balance) ==
    LET current == get_current_user(token, now)
    IN  IF current.status # 200
        THEN Reply(current.status, current.detail, tables)
        ELSE create_account(current.user, account_name, balance)

\* the requested breakdowns as rows of the new transaction, numbered in
\* request order
breakdown_rows(transaction_id, bds) ==
    {[transaction_breakdown_id |-> next_breakdown_id + i - 1,
      transaction_id |-> transaction_id,
      transaction_account_id |-> bds[i].transaction_account_id,
      earned_amount |-> bds[i].earned_amount,
      spent_amount |-> bds[i].spent_amount] : i \in 1..Len(bds)}

RECURSIVE net_amount_of(_)
net_amount_of(bds) ==
    IF bds = <<>> THEN 0
    ELSE net_amount_of(SubSeq(bds, 1, Len(bds) - 1))
         + bds[Len(bds)].earned_amount - bds[Len(bds)].spent_amount

\* create_transaction without its check of the target account
target_denied_never(user, target_account_id) == FALSE

\* the check made of the target account before anything is written
target_denied(user, target_account_id) ==
    /\ ~is_admin(user.email)
    /\ owned_account(user, target_account_id) = {}

\* create_transaction without its check of the breakdown accounts
breakdown_denied_never(user, bd) == FALSE

\* the check made of each breakdown's account, for every caller
breakdown_denied(user, bd) ==
    owned_account(user, bd.transaction_account_id) = {}

\* the detail of the 403 raised for the first breakdown that fails the
\* check, which names its account
breakdown_detail(user, bds) ==
    LET i == CHOOSE i \in 1..Len(bds) :
                /\ breakdown_denied(user, bds[i])
                /\ \A j \in 1..(i - 1) : ~breakdown_denied(user, bds[j])
    IN  "Access denied to breakdown account "
            \o ToString(bds[i].transaction_account_id) \o "."

\* the rows a session that flushed each breakdown as it was added, and
\* committed what it had flushed, would leave: those before the refusal
flushed_before_denial(user, transaction_id, bds) ==
    LET denied == CHOOSE i \in 1..Len(bds) :
                    /\ breakdown_denied(user, bds[i])
                    /\ \A j \in 1..(i - 1) : ~breakdown_denied(user, bds[j])
    IN  breakdown_rows(transaction_id, SubSeq(bds, 1, denied - 1))

\* the breakdown rows of a request that is refused at one of its
\* breakdowns: the session has autoflush off, so the rows added before the
\* refusal were never sent, and get_db closes the session without a commit
left_after_denial(user, transaction_id, bds) == {}

new_assignment(transaction_id, tag_id) ==
    [tag_assigned_to_transaction_id |-> seq.assignment,
     transaction_id |-> transaction_id,
     tag_id |-> tag_id]

\* transaction_request.date: the request's date, or the clock's reading when
\* the request has none
create_transaction(user, transaction_request) ==
    LET id == seq.transaction
        bds == transaction_request.breakdowns
        tag_id == transaction_request.tag_id
        row(net) == [transaction_id |-> id,
                     transaction_name |-> transaction_request.transaction_name,
                     amount |-> transaction_request.amount,
                     net_amount |-> net,
                     date |-> transaction_request.date]
        tagged == tag_id # NULL /\ \E g \in tags : g.tag_id = tag_id
    IN  IF target_denied(user, transaction_request.target_account_id)
        THEN Reply(403, "Access denied to target account.", tables)
        ELSE IF \E i \in 1..Len(bds) : breakdown_denied(user, bds[i])
        THEN \* the transaction row was committed before the loop
             Reply(403, breakdown_detail(user, bds),
                [tables EXCEPT
                    !.transactions = @ \cup {row(0)},
                    !.breakdowns = @ \cup left_after_denial(user, id, bds),
                    !.seq.transaction = id + 1])
        ELSE Reply(200, "",
                [tables EXCEPT
                    !.transactions = @ \cup {row(net_amount_of(bds))},
                    !.breakdowns = @ \cup breakdown_rows(id, bds),
                    !.assignments =
                        IF tagged THEN @ \cup {new_assignment(id, tag_id)}
                        ELSE @,
                    !.seq = [transaction |-> id + 1,
                             assignment |-> IF tagged THEN @.assignment + 1
                                            ELSE @.assignment]])

\* transaction_update.dict() without exclude_unset: the fields the request
\* does not carry come as None and are set too
apply_update_unset_too(t, fields) ==
    [transaction_id |-> t.transaction_id,
     transaction_name |->
        IF "transaction_name" \in DOMAIN fields
        THEN fields.transaction_name ELSE <<>>,
     amount |-> IF "amount" \in DOMAIN fields THEN fields.amount ELSE NULL,
     net_amount |->
        IF "net_amount" \in DOMAIN fields THEN fields.net_amount ELSE NULL,
     date |-> IF "date" \in DOMAIN fields THEN fields.date ELSE NULL]

\* transaction_update.dict(exclude_unset=True): the fields the request
\* carries; setattr for each of them
apply_update(t, fields) ==
    [transaction_id |-> t.transaction_id,
     transaction_name |->
        IF "transaction_name" \in DOMAIN fields
        THEN fields.transaction_name ELSE t.transaction_name,
     amount |->
        IF "amount" \in DOMAIN fields THEN fields.amount ELSE t.amount,
     net_amount |->
        IF "net_amount" \in DOMAIN fields
        THEN fields.net_amount ELSE t.net_amount,
     date |-> IF "date" \in DOMAIN fields THEN fields.date ELSE t.date]

not_found(user) ==
    IF is_admin(user.email) THEN "Transaction not found."
    ELSE "Transaction not found or access denied."

update_transaction(user, transaction_id, fields) ==
    LET found == resolve_transaction(user, transaction_id)
    IN  IF found = {}
        THEN Reply(404, not_found(user), tables)
        ELSE Reply(200, "",
                [tables EXCEPT !.transactions =
                    (@ \ found) \cup {apply_update(t, fields) : t \in found}])

\* the DELETE of the transaction row alone, as a query-level delete makes
\* it: the rows of the secondary table and the breakdowns keep its id
delete_transaction_row_only(user, transaction_id) ==
    LET found == resolve_transaction(user, transaction_id)
    IN  IF found = {}
        THEN Reply(404, not_found(user), tables)
        ELSE Reply(200, "Transaction deleted successfully",
                [tables EXCEPT !.transactions = @ \ found])

\* db.delete(transaction): the ORM empties the "tags" collection (rows of the
\* secondary table go) and detaches the "breakdowns" (their transaction_id
\* is set to NULL), neither relationship cascading the delete
delete_transaction(user, transaction_id) ==
    LET found == resolve_transaction(user, transaction_id)
    IN  IF found = {}
        THEN Reply(404, not_found(user), tables)
        ELSE Reply(200, "Transaction deleted successfully",
                [tables EXCEPT
                    !.transactions = @ \ found,
                    !.assignments =
                        {ta \in @ : ta.transaction_id # transaction_id},
                    !.breakdowns =
                        {IF b.transaction_id = transaction_id
                         THEN [b EXCEPT !.transaction_id = NULL]
                         ELSE b : b \in @}])

\* the query of the accounts without its filter on the caller
first_account_of_anyone(user) == accounts

\* the rows .first() of the unordered query of the caller's accounts may
\* return
first_account(user) == {a \in accounts : a.user_id = user.user_id}

\* now: the clock's reading; user_account: the row .first() returned, one of
\* first_account(user) when there is any
create_tag(user, tag_name, now, user_account) ==
    LET new_tag == [tag_id |-> next_tag_id, tag_name |-> tag_name]
        id == seq.transaction
    IN  IF first_account(user) = {}
        THEN \* the tag row was committed before the account was looked up
             Reply(403, "No account available to associate with the tag.",
                [tables EXCEPT !.tags = @ \cup {new_tag}])
        ELSE Reply(200, "",
                [tables EXCEPT
                    !.tags = @ \cup {new_tag},
                    !.transactions = @ \cup
                        {[transaction_id |-> id,
                          transaction_name |->
                              PlaceholderName(new_tag.tag_id),
                          amount |-> 0,
                          net_amount |-> 0,
                          date |-> now]},
                    !.breakdowns = @ \cup
                        {[transaction_breakdown_id |-> next_breakdown_id,
                          transaction_id |-> id,
                          transaction_account_id |->
                              user_account.transaction_account_id,
                          earned_amount |-> 0,
                          spent_amount |-> 0]},
                    !.assignments = @ \cup
                        {new_assignment(id, new_tag.tag_id)},
                    !.seq = [transaction |-> id + 1,
                             assignment |-> @.assignment + 1]])

\* Tag LEFT JOIN assignment LEFT JOIN Transaction LEFT JOIN breakdown
\* LEFT JOIN account WHERE account.user_id = caller OR account.user_id IS NULL
tag_accessible(user, tag_id) ==
    \E g \in tags :
        /\ g.tag_id = tag_id
        /\ LET linked == {ta \in assignments : ta.tag_id = tag_id}
               bds_of(ta) == {b \in breakdowns :
                                /\ ta.transaction_id = b.transaction_id
                                /\ transaction_of(ta.transaction_id) # {}}
           IN  \/ linked = {}
               \/ \E ta \in linked : bds_of(ta) = {}
               \/ \E ta \in linked : \E b \in bds_of(ta) :
                    owned_account(user, b.transaction_account_id) # {}

\* assign_tag_to_transaction without its lookup of the existing row
already_assigned_never(transaction_id, tag_id) == FALSE

already_assigned(transaction_id, tag_id) ==
    \E ta \in assignments :
        ta.transaction_id = transaction_id /\ ta.tag_id = tag_id

\* db.add(assignment); db.commit(): the INSERT, at whatever time it comes
\* after the lookups; the table has no unique index to refuse it
insert_assignment(transaction_id, tag_id) ==
    Reply(200, "Tag assigned to transaction successfully",
        [tables EXCEPT
            !.assignments = @ \cup {new_assignment(transaction_id, tag_id)},
            !.seq.assignment = @ + 1])

assign_tag_to_transaction(user, transaction_id, tag_id) ==
    IF ~\E t \in owned_transactions(user.user_id) :
            t.transaction_id = transaction_id
    THEN Reply(404, "Transaction not found or access denied.", tables)
    ELSE IF ~tag_accessible(user, tag_id)
    THEN Reply(404, "Access denied to the tag.", tables)
    ELSE IF already_assigned(transaction_id, tag_id)
    THEN Reply(400, "Tag already assigned to this transaction.", tables)
    ELSE insert_assignment(transaction_id, tag_id)

----------------------------------------------------------------------------
(* The state machine.                                                      *)

\* the workers of the server (uvicorn runs the handlers, plain "def"s, in a
\* thread pool), and the state of one that is serving nothing
Workers == 1..MaxWorkers

Idle ==
    [pc |-> "idle", op |-> "", email |-> "", user |-> NULL,
     transaction_id |-> NULL, tag_id |-> NULL, status |-> NULL, detail |-> ""]

Admin == [user_id |-> 1, email |-> AdminEmail]
Alice == [user_id |-> 2, email |-> "alice@x.com"]
Bob == [user_id |-> 3, email |-> "bob@x.com"]

Account(transaction_account_id, user) ==
    [transaction_account_id |-> transaction_account_id,
     account_name |-> "Cash",
     balance |-> 0,
     user_id |-> user.user_id]

\* the database after three registrations and one create_account by each
\* of the two regular users
Init ==
    /\ users = {Admin, Alice, Bob}
    /\ accounts = {Account(1, Alice), Account(2, Bob)}
    /\ transactions = {}
    /\ breakdowns = {}
    /\ tags = {}
    /\ assignments = {}
    /\ seq = [transaction |-> 1, assignment |-> 1]
    /\ placeholders = {}
    /\ last = [op |-> "create_account", user |-> Bob.user_id,
               status |-> 200, detail |-> ""]
    /\ clock = 0
    /\ tokens = {}
    /\ serving = [w \in Workers |-> Idle]

\* ids a request may name: those of the rows there can be; for a target
\* account, one beyond them too
AccountIds == 1..Cardinality(accounts)
TargetIds == 1..(Cardinality(accounts) + 1)
TransactionIds == 1..MaxTransactions
TagIds == 1..MaxTags

BreakdownRequests(amounts) ==
    {[transaction_account_id |-> a,
      earned_amount |-> m[1],
      spent_amount |-> m[2]] : a \in AccountIds, m \in amounts}

\* the tables as a handler left them, and its reply
Apply(op, user, reply) ==
    /\ accounts' = reply.db.accounts
    /\ transactions' = reply.db.transactions
    /\ breakdowns' = reply.db.breakdowns
    /\ tags' = reply.db.tags
    /\ assignments' = reply.db.assignments
    /\ seq' = reply.db.seq
    /\ placeholders' =
            {t.transaction_id : t \in reply.db.transactions} \cap
            (placeholders \cup
                IF op = "create_tag"
                THEN {t.transaction_id :
                        t \in reply.db.transactions \ transactions}
                ELSE {})
    /\ last' = [op |-> op, user |-> user.user_id,
                status |-> reply.status, detail |-> reply.detail]
    /\ UNCHANGED <<users, clock, tokens>>

\* one request served from its first line to its reply with no other
\* request in between
Serve(op, user, reply) == Apply(op, user, reply) /\ UNCHANGED serving

\* no request is sent that would take a table past its bound
WithinBounds(reply) ==
    /\ Cardinality(reply.db.accounts) <= MaxAccounts
    /\ reply.db.seq.transaction <= MaxTransactions + 1
    /\ Cardinality(reply.db.tags) <= MaxTags

CreateAccount(callers, names, balances) ==
    \E user \in callers, account_name \in names, balance \in balances :
        \E reply \in {create_account(user, account_name, balance)} :
            WithinBounds(reply) /\ Serve("create_account", user, reply)

\* the requests a client may send, over the given values
TransactionRequests(names, amounts, dates, tag_ids, bd_amounts, max_bds) ==
    [transaction_name : names,
     amount : amounts,
     date : dates,
     tag_id : tag_ids \cup {NULL},
     target_account_id : TargetIds,
     breakdowns : SeqsUpTo(BreakdownRequests(bd_amounts), max_bds)]

\* no create_transaction is sent once MaxTransactions ids are used
CreateTransaction(callers, requests) ==
    /\ seq.transaction <= MaxTransactions
    /\ \E user \in callers, transaction_request \in requests :
        \E reply \in {create_transaction(user, transaction_request)} :
            Serve("create_transaction", user, reply)

\* the partial updates a client may send: any subset of the fields that
\* have values to offer, each with a value of its own type
TransactionUpdates(values) ==
    LET Pad(S) == IF S = {} THEN {NULL} ELSE S
    IN  {[f \in F |-> full[f]] :
            F \in SUBSET {f \in DOMAIN values : values[f] # {}},
            full \in [transaction_name : Pad(values.transaction_name),
                      amount : Pad(values.amount),
                      net_amount : Pad(values.net_amount),
                      date : Pad(values.date)]}

UpdateTransaction(callers, updates) ==
    \E user \in callers, transaction_id \in TransactionIds,
       fields \in updates :
        \E reply \in {update_transaction(user, transaction_id, fields)} :
            Serve("update_transaction", user, reply)

DeleteTransaction(callers) ==
    \E user \in callers, transaction_id \in TransactionIds :
        \E reply \in {delete_transaction(user, transaction_id)} :
            Serve("delete_transaction", user, reply)

CreateTag(callers, dates) ==
    \E user \in callers, tag_name \in TagNames, now \in dates :
        \E user_account \in
                IF first_account(user) = {} THEN {NULL}
                ELSE first_account(user) :
            \E reply \in {create_tag(user, tag_name, now, user_account)} :
                WithinBounds(reply) /\ Serve("create_tag", user, reply)

AssignTag(callers) ==
    \E user \in callers, transaction_id \in TransactionIds,
       tag_id \in TagIds :
        \E reply \in {assign_tag_to_transaction(user, transaction_id,
                                                 tag_id)} :
            Serve("assign_tag_to_transaction", user, reply)

\* a client's names: an ordinary one, and one of the reserved shape
TransactionNames == {Coffee, PlaceholderName(9)}

Requests ==
    TransactionRequests(TransactionNames, {450}, {Noon}, TagIds,
                        {<<0, 450>>}, MaxBreakdowns)

Updates ==
    TransactionUpdates([transaction_name |-> TransactionNames,
                        amount |-> {450},
                        net_amount |-> {0},
                        date |-> {}])

Next ==
    \/ CreateTransaction(users, Requests)
    \/ UpdateTransaction(users, Updates)
    \/ DeleteTransaction(users)
    \/ CreateTag(users, {Noon})
    \/ AssignTag(users)

Spec == Init /\ [][Next]_vars

\* The same handlers under requests that vary what the reports read: the
\* dates, and what a breakdown earns or spends.
ReportRequests ==
    TransactionRequests({Coffee}, {0, 450}, {Midnight, Noon}, {},
                        {<<500, 0>>, <<0, 450>>}, MaxBreakdowns)

ReportUpdates ==
    TransactionUpdates([transaction_name |-> {},
                        amount |-> {0, 450},
                        net_amount |-> {},
                        date |-> {Midnight, Noon}])

NextReports ==
    \/ CreateAccount({Alice}, {"Bank"}, {0})
    \/ CreateTransaction({Alice, Bob}, ReportRequests)
    \/ UpdateTransaction({Alice}, ReportUpdates)
    \/ DeleteTransaction({Alice})

SpecReports == Init /\ [][NextReports]_vars

\* The same handlers from a database in which nobody has an account yet:
\* each user creates accounts of a name and balance of their own.
InitAccounts ==
    /\ users = {Admin, Alice, Bob}
    /\ accounts = {}
    /\ transactions = {}
    /\ breakdowns = {}
    /\ tags = {}
    /\ assignments = {}
    /\ seq = [transaction |-> 1, assignment |-> 1]
    /\ placeholders = {}
    /\ last = [op |-> "register", user |-> Bob.user_id,
               status |-> 200, detail |-> ""]
    /\ clock = 0
    /\ tokens = {}
    /\ serving = [w \in Workers |-> Idle]

AccountRequests ==
    TransactionRequests({Coffee}, {450}, {Noon}, TagIds, {<<0, 450>>}, 1)

\* the accounts each user asks for: names and balances (in cents)
Opened(user) ==
    IF user = Alice THEN [names |-> {"Checking"}, balances |-> {50000}]
    ELSE IF user = Bob THEN [names |-> {"Savings"}, balances |-> {0, 100}]
    ELSE [names |-> {"Vault"}, balances |-> {0}]

NextAccounts ==
    \/ CreateAccount({Alice}, Opened(Alice).names, Opened(Alice).balances)
    \/ CreateAccount({Bob}, Opened(Bob).names, Opened(Bob).balances)
    \/ CreateAccount({Admin}, Opened(Admin).names, Opened(Admin).balances)
    \/ CreateTag(users, {Noon})
    \/ CreateTransaction(users, AccountRequests)
    \/ DeleteTransaction(users)

SpecAccounts == InitAccounts /\ [][NextAccounts]_vars

\* Every write handler over accounts that have a balance: the two regular
\* users open accounts, and one of them earns and spends on the accounts,
\* updates and deletes the transactions, creates a tag and assigns it.
LedgerRequests ==
    TransactionRequests({Coffee}, {450}, {Noon}, {},
                        {<<500, 0>>, <<0, 450>>}, 1)

LedgerUpdates ==
    TransactionUpdates([transaction_name |-> {},
                        amount |-> {},
                        net_amount |-> {0},
                        date |-> {}])

NextLedger ==
    \/ CreateAccount({Alice}, Opened(Alice).names, Opened(Alice).balances)
    \/ CreateAccount({Bob}, Opened(Bob).names, {100})
    \/ CreateTransaction({Bob}, LedgerRequests)
    \/ UpdateTransaction({Bob}, LedgerUpdates)
    \/ DeleteTransaction({Bob})
    \/ CreateTag({Bob}, {Noon})
    \/ AssignTag({Bob})

SpecLedger == InitAccounts /\ [][NextLedger]_vars

\* Authentication: users register and log in, the clock advances, and the
\* clients send POST /accounts/ with the tokens they were issued and with
\* tokens of their own making.
InitAuth ==
    /\ users = {Admin, Alice, Bob}
    /\ accounts = {}
    /\ transactions = {}
    /\ breakdowns = {}
    /\ tags = {}
    /\ assignments = {}
    /\ seq = [transaction |-> 1, assignment |-> 1]
    /\ placeholders = {}
    /\ last = [op |-> "register", user |-> Bob.user_id,
               status |-> 200, detail |-> ""]
    /\ clock = 0
    /\ tokens = {}
    /\ serving = [w \in Workers |-> Idle]

\* the reply of register or login reaches the client, who keeps the token
Issue(op, reply) ==
    /\ Cardinality(reply.users) <= MaxUsers
    /\ users' = reply.users
    /\ tokens' = IF reply.status = 200
                 THEN tokens \cup {[jwt |-> reply.access_token,
                                    issued_at |-> clock]}
                 ELSE tokens
    /\ Cardinality(tokens') <= MaxTokens
    /\ last' = [op |-> op, user |-> NULL,
                status |-> reply.status, detail |-> reply.detail]
    /\ UNCHANGED <<accounts, transactions, breakdowns, tags, assignments,
                   seq, placeholders, clock, serving>>

Register(emails) ==
    \E email \in emails : Issue("register", register([email |-> email], clock))

Login(emails) ==
    \E email \in emails, verified \in BOOLEAN :
        Issue("login", login([email |-> email], verified, clock))

Tick ==
    /\ clock + TickMinutes <= MaxClock
    /\ clock' = clock + TickMinutes
    /\ UNCHANGED <<users, accounts, transactions, breakdowns, tags,
                   assignments, seq, placeholders, last, tokens, serving>>

\* tokens that no register or login issued: one that is no JWT, one signed
\* with another key, one without a subject, one of a user that does not
\* exist
ForgedTokens ==
    {NoToken,
     [well_formed |-> TRUE, key |-> "guess", sub |-> Str(Alice.user_id),
      email |-> Alice.email, exp |-> MaxClock + AccessTokenMinutes],
     [well_formed |-> TRUE, key |-> SecretKey, sub |-> <<>>,
      email |-> Alice.email, exp |-> MaxClock + AccessTokenMinutes],
     [well_formed |-> TRUE, key |-> SecretKey, sub |-> Str(MaxUsers + 1),
      email |-> Alice.email, exp |-> MaxClock + AccessTokenMinutes]}

CreateAccountRequest(sent) ==
    \E token \in sent :
        \E reply \in {create_account_request(token, clock, "Cash", 0)} :
            /\ WithinBounds(reply)
            /\ Serve("create_account",
                     get_current_user(token, clock).user, reply)

NextAuth ==
    \/ Register({"carol@x.com", Alice.email})
    \/ Login({Alice.email, Bob.email, "dave@x.com"})
    \/ Tick
    \/ CreateAccountRequest({t.jwt : t \in tokens} \cup ForgedTokens)

SpecAuth == InitAuth /\ [][NextAuth]_vars

\* Concurrent requests: a worker runs register or assign_tag_to_transaction
\* up to its INSERT, and runs the INSERT in a later step, so that the
\* lookups and the INSERTs of two workers come in any order. The other
\* handlers are served in one step.
Started(w, op, email, user, transaction_id, tag_id) ==
    serving' = [serving EXCEPT ![w] =
        [pc |-> "checked", op |-> op, email |-> email, user |-> user,
         transaction_id |-> transaction_id, tag_id |-> tag_id,
         status |-> NULL, detail |-> ""]]

Answered(w, op, email, user, transaction_id, tag_id, reply) ==
    serving' = [serving EXCEPT ![w] =
        [pc |-> "done", op |-> op, email |-> email, user |-> user,
         transaction_id |-> transaction_id, tag_id |-> tag_id,
         status |-> reply.status, detail |-> reply.detail]]

\* register down to its "if existing_user": the 400, or on to the INSERT
RegisterLookup(emails) ==
    \E w \in Workers, email \in emails :
        /\ serving[w].pc # "checked"
        /\ IF existing_user([email |-> email]) # {}
           THEN LET reply == register([email |-> email], clock)
                IN  /\ Answered(w, "register", email, NULL, NULL, NULL, reply)
                    /\ last' = [op |-> "register", user |-> NULL,
                                status |-> reply.status,
                                detail |-> reply.detail]
           ELSE /\ Started(w, "register", email, NULL, NULL, NULL)
                /\ UNCHANGED last
        /\ UNCHANGED <<users, accounts, transactions, breakdowns, tags,
                       assignments, seq, placeholders, clock, tokens>>

RegisterInsert ==
    \E w \in Workers :
        /\ serving[w].pc = "checked"
        /\ serving[w].op = "register"
        /\ LET reply == insert_user([email |-> serving[w].email], clock)
           IN  /\ Cardinality(reply.users) <= MaxUsers
               /\ users' = reply.users
               /\ tokens' = IF reply.status = 200
                            THEN tokens \cup {[jwt |-> reply.access_token,
                                               issued_at |-> clock]}
                            ELSE tokens
               /\ Cardinality(tokens') <= MaxTokens
               /\ Answered(w, "register", serving[w].email, NULL, NULL, NULL,
                           reply)
               /\ last' = [op |-> "register", user |-> NULL,
                           status |-> reply.status, detail |-> reply.detail]
        /\ UNCHANGED <<accounts, transactions, breakdowns, tags, assignments,
                       seq, placeholders, clock>>

\* assign_tag_to_transaction down to its "if existing_assignment": one of
\* its refusals, or on to the INSERT
AssignLookup(callers) ==
    \E w \in Workers, user \in callers, transaction_id \in TransactionIds,
       tag_id \in TagIds :
        /\ serving[w].pc # "checked"
        /\ LET reply == assign_tag_to_transaction(user, transaction_id,
                                                   tag_id)
           IN  IF reply.status # 200
               THEN /\ Answered(w, "assign_tag_to_transaction", "",
                                user.user_id, transaction_id, tag_id, reply)
                    /\ Apply("assign_tag_to_transaction", user, reply)
               ELSE /\ Started(w, "assign_tag_to_transaction", "",
                               user.user_id, transaction_id, tag_id)
                    /\ UNCHANGED <<users, accounts, transactions, breakdowns,
                                   tags, assignments, seq, placeholders,
                                   last, clock, tokens>>

AssignInsert ==
    \E w \in Workers, user \in users :
        /\ serving[w].pc = "checked"
        /\ serving[w].op = "assign_tag_to_transaction"
        /\ serving[w].user = user.user_id
        /\ LET reply == insert_assignment(serving[w].transaction_id,
                                           serving[w].tag_id)
           IN  /\ Answered(w, "assign_tag_to_transaction", "", user.user_id,
                           serving[w].transaction_id, serving[w].tag_id,
                           reply)
               /\ Apply("assign_tag_to_transaction", user, reply)

RaceRequests ==
    TransactionRequests({Coffee}, {450}, {Noon}, {}, {<<0, 450>>}, 1)

NextRaces ==
    \/ RegisterLookup({"carol@x.com", Alice.email})
    \/ RegisterInsert
    \/ AssignLookup({Alice, Bob})
    \/ AssignInsert
    \/ CreateTransaction({Alice}, RaceRequests)
    \/ CreateTag({Alice}, {Noon})

SpecRaces == Init /\ [][NextRaces]_vars

----------------------------------------------------------------------------
(* Vocabulary of the properties.                                           *)

Regular == {u \in users : u.email \notin AdminEmails}
Admins == {u \in users : u.email \in AdminEmails}

\* user_id owns the account
Owns(user_id, transaction_account_id) ==
    \E a \in accounts :
        /\ a.transaction_account_id = transaction_account_id
        /\ a.user_id = user_id

\* the transaction has a breakdown on an account user_id owns
Reaches(user_id, transaction_id) ==
    \E b \in breakdowns :
        /\ b.transaction_id = transaction_id
        /\ Owns(user_id, b.transaction_account_id)

----------------------------------------------------------------------------
(* C1: every row returned to a non-privileged caller by get_accounts,      *)
(* get_transactions, get_transaction_by_id, get_transaction_breakdowns or  *)
(* get_transaction_tags_for_user is an account the caller owns, or a       *)
(* transaction, breakdown or tag assignment reached through a breakdown on *)
(* an account the caller owns; and the transactions listed for one regular *)
(* user hold none that another regular user reaches.                       *)
C1_ScopedReads ==
    \A u \in Regular :
        /\ \A a \in get_accounts(u).rows : a.user_id = u.user_id
        /\ \A t \in get_transactions(u).rows :
                Reaches(u.user_id, t.transaction_id)
        /\ \A id \in TransactionIds :
            /\ \A t \in get_transaction_by_id(u, id).rows :
                    t.transaction_id = id /\ Reaches(u.user_id, id)
            /\ \A b \in get_transaction_breakdowns(u, id).rows :
                    /\ b.transaction_id = id
                    /\ Owns(u.user_id, b.transaction_account_id)
            /\ get_transaction_tags_for_user(u, id).rows # {}
                    => Reaches(u.user_id, id)
        /\ \A v \in Regular \ {u} :
                \A t \in get_transactions(u).rows :
                    ~Reaches(v.user_id, t.transaction_id)

\* Alice and Bob each have a transaction listed, Alice's one also tagged
C1_Witness ==
    /\ \E t \in get_transactions(Alice).rows :
            get_transaction_tags_for_user(Alice, t.transaction_id).rows # {}
    /\ get_transactions(Bob).rows # {}
    /\ \E id \in TransactionIds :
            get_transaction_breakdowns(Alice, id).status = 200

----------------------------------------------------------------------------
----------------------------------------------------------------------------
(* C3: a privileged caller's writes pass the ownership checks:             *)
(* create_transaction succeeds when the target account and every breakdown *)
(* account belong to other users, and update_transaction and               *)
(* delete_transaction succeed on any existing transaction.                 *)
C3_AdminBypassesWrites ==
    \A u \in Admins :
        /\ \A r \in Requests :
                (/\ Owns(Alice.user_id, r.target_account_id)
                        \/ Owns(Bob.user_id, r.target_account_id)
                 /\ \A i \in 1..Len(r.breakdowns) :
                        \/ Owns(Alice.user_id,
                                r.breakdowns[i].transaction_account_id)
                        \/ Owns(Bob.user_id,
                                r.breakdowns[i].transaction_account_id))
                => create_transaction(u, r).status = 200
        /\ \A t \in transactions :
            /\ \A fields \in Updates :
                    update_transaction(u, t.transaction_id, fields).status
                        = 200
            /\ delete_transaction(u, t.transaction_id).status = 200

----------------------------------------------------------------------------
(* C4: a privileged caller can assign any existing tag to any existing     *)
(* transaction: the request succeeds and inserts the assignment, also when *)
(* only another user's accounts reach the transaction.                     *)
C4_AdminAssignsAnyTag ==
    \A u \in Admins : \A t \in transactions : \A g \in tags :
        ~already_assigned(t.transaction_id, g.tag_id) =>
            LET reply == assign_tag_to_transaction(u, t.transaction_id,
                                                   g.tag_id)
            IN  /\ reply.status = 200
                /\ \E ta \in reply.db.assignments :
                        /\ ta.transaction_id = t.transaction_id
                        /\ ta.tag_id = g.tag_id

----------------------------------------------------------------------------
(* C5: in every reachable state the net amount of every transaction is the *)
(* sum of (earned - spent) over its breakdowns, 0 when it has none.        *)
breakdowns_of(transaction_id) ==
    {b \in breakdowns : b.transaction_id = transaction_id}

C5_NetAmountIsSum ==
    \A t \in transactions :
        LET bs == breakdowns_of(t.transaction_id)
        IN  t.net_amount =
                SumOver(bs, [b \in bs |-> b.earned_amount - b.spent_amount])

----------------------------------------------------------------------------
(* C6: a placeholder transaction that create_tag inserted is never in what *)
(* get_transactions returns, to any caller, whatever requests followed.    *)
C6_PlaceholdersHidden ==
    \A u \in users : \A t \in get_transactions(u).rows :
        t.transaction_id \notin placeholders

----------------------------------------------------------------------------
(* C7: for a caller who reaches the transaction, assigning a tag that the  *)
(* transaction already has is rejected with "Tag already assigned to this  *)
(* transaction." (400), nothing is written, and the table holds exactly    *)
(* one row of that (transaction, tag) pair.                                *)
C7_SecondAssignRejected ==
    \A u \in users, id \in TransactionIds, tag_id \in TagIds :
        LET pair == {ta \in assignments :
                        ta.transaction_id = id /\ ta.tag_id = tag_id}
        IN  (Reaches(u.user_id, id) /\ pair # {}) =>
                /\ assign_tag_to_transaction(u, id, tag_id) =
                        Reply(400,
                              "Tag already assigned to this transaction.",
                              tables)
                /\ Cardinality(pair) = 1

\* a repeated assignment has just been rejected, the pair still there once
C7_Witness ==
    /\ last.op = "assign_tag_to_transaction"
    /\ last.status = 400
    /\ \E ta \in assignments :
        /\ Reaches(last.user, ta.transaction_id)
        /\ ta.transaction_id \notin placeholders

----------------------------------------------------------------------------
(* C8: get_total_spending returns the sum of amount over the transactions  *)
(* of amount > 0 in the caller's scope (all of them for an admin), each    *)
(* counted once however many breakdowns it has on the caller's accounts.   *)
scope(u) ==
    IF u.email \in AdminEmails THEN transactions
    ELSE {t \in transactions : Reaches(u.user_id, t.transaction_id)}

C8_TotalSpendingCountsOnce ==
    \A u \in users :
        LET spent == {t \in scope(u) : t.amount > 0}
        IN  get_total_spending(u).total_spent =
                SumOver(spent, [t \in spent |-> t.amount])

----------------------------------------------------------------------------
(* C9: get_exceeding_transactions flags a breakdown exactly when what it   *)
(* spent is positive and more than the account's running balance at that   *)
(* point, the sum of (earned - spent) over the account's breakdowns of     *)
(* earlier transactions: after balances [100, 150, 50] one that spends 120 *)
(* is flagged and one that spends 40 is not. Stated of the accounts whose  *)
(* breakdowns are all of different dates, where the order is not in doubt. *)
running_balance_before(r) ==
    LET earlier == {q \in breakdown_join :
                        /\ q[1].transaction_account_id =
                                r[1].transaction_account_id
                        /\ q[4].date < r[4].date}
    IN  SumOver(earlier,
            [q \in earlier |-> q[1].earned_amount - q[1].spent_amount])

C9_FlaggedWhenOverBalance ==
    \A r \in breakdown_join :
        (\A q \in breakdown_join :
            (q[1].transaction_account_id = r[1].transaction_account_id
             /\ q[1] # r[1]) => q[4].date # r[4].date)
        =>
        ((\E row \in get_exceeding_transactions(Admin, "") :
            row.transaction_breakdown_id = r[1].transaction_breakdown_id)
         <=>
         (/\ r[1].spent_amount > 0
          /\ r[1].spent_amount > running_balance_before(r)))

----------------------------------------------------------------------------
(* C10: create_transaction from a non-privileged caller whose target       *)
(* account is not one the caller owns is rejected with "Access denied to   *)
(* target account." (403) and writes nothing.                              *)
C10_TargetDeniedWritesNothing ==
    \A u \in Regular : \A r \in Requests :
        ~Owns(u.user_id, r.target_account_id) =>
            create_transaction(u, r) =
                Reply(403, "Access denied to target account.", tables)

\* such a request has just been rejected, and no row of the three tables
\* was ever written
C10_Witness ==
    /\ last.op = "create_transaction"
    /\ last.status = 403
    /\ last.detail = "Access denied to target account."
    /\ \E u \in Regular : u.user_id = last.user
    /\ transactions = {} /\ breakdowns = {} /\ assignments = {}
    /\ seq = [transaction |-> 1, assignment |-> 1]

----------------------------------------------------------------------------
(* C11: for a non-privileged caller and a transaction id that does not     *)
(* exist or that no breakdown on an account of the caller reaches,         *)
(* get_transaction_by_id, update_transaction and delete_transaction answer *)
(* 404, and the two writes leave every table as it was.                    *)
C11_UnreachableNotFound ==
    \A u \in Regular : \A id \in 1..(MaxTransactions + 1) :
        ~(transaction_of(id) # {} /\ Reaches(u.user_id, id)) =>
            /\ get_transaction_by_id(u, id) = Response(404, {})
            /\ \A fields \in Updates :
                    update_transaction(u, id, fields) =
                        Reply(404, "Transaction not found or access denied.",
                              tables)
            /\ delete_transaction(u, id) =
                    Reply(404, "Transaction not found or access denied.",
                          tables)

\* a regular user's update or delete of a transaction that exists, but
\* that only another user reaches, has just been turned down
C11_Witness ==
    /\ last.op \in {"update_transaction", "delete_transaction"}
    /\ last.status = 404
    /\ \E u \in Regular :
        /\ u.user_id = last.user
        /\ \A t \in transactions : ~Reaches(u.user_id, t.transaction_id)
    /\ \E t \in transactions, v \in Regular :
            Reaches(v.user_id, t.transaction_id)

----------------------------------------------------------------------------
(* C12: for a non-privileged caller, assign_tag_to_transaction answers 404 *)
(* when the caller does not own the transaction, and 404 when the tag is   *)
(* not accessible, a tag being accessible exactly when it is linked to a   *)
(* transaction the caller owns or is linked to no transaction at all: a    *)
(* tag linked only to transactions the caller does not own is refused.     *)
linked_to(tag_id) == {ta \in assignments : ta.tag_id = tag_id}

accessible_as_specified(u, tag_id) ==
    /\ \E g \in tags : g.tag_id = tag_id
    /\ \/ linked_to(tag_id) = {}
       \/ \E ta \in linked_to(tag_id) : Reaches(u.user_id, ta.transaction_id)

C12_AssignNeedsOwnedAndAccessible ==
    \A u \in Regular, id \in TransactionIds, tag_id \in TagIds :
        LET owned == transaction_of(id) # {} /\ Reaches(u.user_id, id)
            reply == assign_tag_to_transaction(u, id, tag_id)
        IN  /\ ~owned =>
                reply = Reply(404, "Transaction not found or access denied.",
                              tables)
            /\ (owned /\ ~accessible_as_specified(u, tag_id)) =>
                reply = Reply(404, "Access denied to the tag.", tables)
            /\ (owned /\ accessible_as_specified(u, tag_id)) =>
                reply.status \in {200, 400}

----------------------------------------------------------------------------
(* C13: create_tag by a caller who owns an account succeeds and adds       *)
(* exactly one tag, one transaction named Tag_<tag id>_placeholder of      *)
(* amount 0 and net amount 0, one breakdown of that transaction with       *)
(* earned 0 and spent 0 on an account of the caller, and one assignment of *)
(* the new tag to that transaction, and removes nothing; right after it    *)
(* the new tag is in the caller's get_tags.                                *)
C13_CreateTagAddsFourRows ==
    /\ \A u \in users : \A tag_name \in TagNames :
       \A user_account \in first_account(u) :
            LET reply == create_tag(u, tag_name, Noon, user_account)
                new_tags == reply.db.tags \ tags
                new_transactions == reply.db.transactions \ transactions
                new_breakdowns == reply.db.breakdowns \ breakdowns
                new_assignments == reply.db.assignments \ assignments
            IN  /\ reply.status = 200
                /\ tags \subseteq reply.db.tags
                /\ transactions \subseteq reply.db.transactions
                /\ breakdowns \subseteq reply.db.breakdowns
                /\ assignments \subseteq reply.db.assignments
                /\ reply.db.accounts = accounts
                /\ \E g \in new_tags, t \in new_transactions,
                      b \in new_breakdowns, ta \in new_assignments :
                        /\ new_tags = {g}
                        /\ new_transactions = {t}
                        /\ new_breakdowns = {b}
                        /\ new_assignments = {ta}
                        /\ g.tag_name = tag_name
                        /\ t.transaction_name =
                                <<"T", "a", "g", "_">> \o Str(g.tag_id)
                                \o <<"_", "p", "l", "a", "c", "e",
                                     "h", "o", "l", "d", "e", "r">>
                        /\ t.amount = 0 /\ t.net_amount = 0
                        /\ b.transaction_id = t.transaction_id
                        /\ b.earned_amount = 0 /\ b.spent_amount = 0
                        /\ Owns(u.user_id, b.transaction_account_id)
                        /\ ta.tag_id = g.tag_id
                        /\ ta.transaction_id = t.transaction_id
    /\ (last.op = "create_tag" /\ last.status = 200) =>
            \E u \in users : \E g \in get_tags(u).rows :
                /\ u.user_id = last.user
                /\ g.tag_id = Cardinality(tags)

\* a create_tag has just succeeded and its placeholder is in the table
C13_Witness ==
    /\ last.op = "create_tag"
    /\ last.status = 200
    /\ \E t \in transactions :
        /\ t.transaction_id \in placeholders
        /\ Reaches(last.user, t.transaction_id)

----------------------------------------------------------------------------
(* C14: create_tag by a caller who owns no account, admin or not, answers  *)
(* 403 "No account available to associate with the tag." and adds no       *)
(* transaction, breakdown or assignment, but the tag row it wrote first    *)
(* stays: the tables afterwards are the tables before plus the new tag.    *)
C14_NoAccountKeepsTag ==
    \A u \in users : \A tag_name \in TagNames :
        (~\E a \in accounts : a.user_id = u.user_id) =>
            \A user_account \in (IF accounts = {} THEN {NULL} ELSE accounts) :
                create_tag(u, tag_name, Noon, user_account) =
                    Reply(403,
                          "No account available to associate with the tag.",
                          [tables EXCEPT !.tags = @ \cup
                              {[tag_id |-> Cardinality(tags) + 1,
                                tag_name |-> tag_name]}])

\* a regular user without an account has just been refused, and the tag is
\* the only row that the request left
C14_Witness ==
    /\ last.op = "create_tag"
    /\ last.status = 403
    /\ \E u \in Regular :
        /\ u.user_id = last.user
        /\ ~\E a \in accounts : a.user_id = u.user_id
    /\ tags # {}
    /\ transactions = {} /\ breakdowns = {} /\ assignments = {}
    /\ accounts # {}

----------------------------------------------------------------------------
(* C15: for every caller, the admin included, get_transaction_breakdowns   *)
(* returns exactly the breakdowns of the transaction that are on accounts  *)
(* the caller owns, and answers 404 whenever there is none: the            *)
(* transaction does not exist, has no breakdown, or has them on other      *)
(* users' accounts only.                                                   *)
C15_BreakdownsOfOwnAccountsOnly ==
    \A u \in users : \A id \in 1..(MaxTransactions + 1) :
        LET mine == {b \in breakdowns :
                        /\ b.transaction_id = id
                        /\ Owns(u.user_id, b.transaction_account_id)}
        IN  get_transaction_breakdowns(u, id) =
                IF mine = {} THEN Response(404, {}) ELSE Response(200, mine)

\* the admin, who owns an account, is refused the breakdowns of a
\* transaction that the admin can read and whose owner is given them
C15_Witness ==
    /\ \E a \in accounts : a.user_id = Admin.user_id
    /\ \E t \in transactions, u \in Regular :
        /\ get_transaction_by_id(Admin, t.transaction_id).status = 200
        /\ get_transaction_breakdowns(Admin, t.transaction_id).status = 404
        /\ get_transaction_breakdowns(u, t.transaction_id).status = 200
    /\ \E t \in transactions :
        get_transaction_breakdowns(Admin, t.transaction_id).status = 200

----------------------------------------------------------------------------
(* C16: get_spending_by_category returns, for every tag name, the sum of   *)
(* amount over the transactions of amount > 0 in the caller's scope that   *)
(* carry a tag of that name: each transaction counts its full amount once  *)
(* for each of its tags, however many breakdowns it has, and a placeholder *)
(* of create_tag counts nothing.                                           *)
tagged_spending(u, tag_name) ==
    {p \in assignments \X scope(u) :
        /\ p[1].transaction_id = p[2].transaction_id
        /\ p[2].amount > 0
        /\ p[2].transaction_id \notin placeholders
        /\ \E g \in tags : g.tag_id = p[1].tag_id /\ g.tag_name = tag_name}

C16_CategoryCountsOncePerTag ==
    \A u \in users :
        get_spending_by_category(u).spending_by_category =
            [tag_name \in {n \in TagNames : tagged_spending(u, n) # {}} |->
                SumOver(tagged_spending(u, tag_name),
                        [p \in tagged_spending(u, tag_name) |-> p[2].amount])]

----------------------------------------------------------------------------
(* C17: get_spending_by_date_range(start, end) returns the sum of amount   *)
(* over the transactions of amount > 0 in the caller's scope whose date is *)
(* from midnight of the start day to midnight of the end day, both         *)
(* included (a transaction at noon of the end day is not counted), and 0   *)
(* when there is none.                                                     *)
Day1 == <<"0", "0", "0", "1", "-", "0", "1", "-", "0", "1">>
Day2 == <<"0", "0", "0", "1", "-", "0", "1", "-", "0", "2">>
Day1Short == <<"0", "0", "0", "1", "-", "1", "-", "1">>

\* the calendar dates a client sends, each with the number of its day
CalendarDates ==
    {[text |-> Day1, day |-> 1], [text |-> Day1Short, day |-> 1],
     [text |-> Day2, day |-> 2]}

in_range(u, start, end) ==
    {t \in scope(u) :
        /\ t.amount > 0
        /\ start.day * DayHours <= t.date
        /\ t.date <= end.day * DayHours}

C17_DateRangeSum ==
    \A u \in users : \A start \in CalendarDates, end \in CalendarDates :
        get_spending_by_date_range(u, start.text, end.text) =
            [status |-> 200,
             total_spent |->
                SumOver(in_range(u, start, end),
                        [t \in in_range(u, start, end) |-> t.amount])]

----------------------------------------------------------------------------
(* C18: get_spending_by_date_range with a start or end date that is not a  *)
(* date in the form YYYY-MM-DD is refused as malformed input, with a       *)
(* client-error status and not with the 500 "Failed to calculate spending  *)
(* by date range." that an unexpected error of the store is answered with. *)
Slashes == <<"0", "1", "/", "0", "1", "/", "0", "0", "0", "1">>
Month13 == <<"0", "0", "0", "1", "-", "1", "3", "-", "0", "1">>
February30 == <<"0", "0", "0", "1", "-", "0", "2", "-", "3", "0">>
Tomorrow == <<"t", "o", "m", "o", "r", "r", "o", "w">>

MalformedDates == {Slashes, Month13, February30, Tomorrow, <<>>}

C18_MalformedDateIsValidationFailure ==
    \A u \in users : \A bad \in MalformedDates :
        \A good \in {d.text : d \in CalendarDates} \cup MalformedDates :
            /\ get_spending_by_date_range(u, bad, good).status \in 400..499
            /\ get_spending_by_date_range(u, good, bad).status \in 400..499

----------------------------------------------------------------------------
(* C19: a regular user's get_accounts returns exactly the accounts that    *)
(* user created: it is empty before the first create_account, every        *)
(* create_account of the user adds to it one account of the name and       *)
(* balance given, owned by the user, and no request of anybody else, and   *)
(* no other request of the user, changes it.                               *)
C19_AccountsRoundTrip ==
    /\ \A u \in Regular : get_accounts(u) = Response(200, {})
    /\ [][\A u \in Regular :
            LET before == get_accounts(u).rows
                after == get_accounts(u).rows'
            IN  IF last'.op = "create_account" /\ last'.user = u.user_id
                THEN \E account_name \in Opened(u).names :
                     \E balance \in Opened(u).balances :
                        /\ after = before \cup
                            {[transaction_account_id |->
                                    Cardinality(accounts) + 1,
                              account_name |-> account_name,
                              balance |-> balance,
                              user_id |-> u.user_id]}
                        /\ after # before
                ELSE after = before]_vars

\* Alice lists her one account, "Checking" with 500.00, after Bob and the
\* admin have created accounts of their own
C19_Witness ==
    /\ last.op = "create_account"
    /\ last.user = Alice.user_id
    /\ \E a \in accounts :
        /\ get_accounts(Alice) = Response(200, {a})
        /\ a.account_name = "Checking"
        /\ a.balance = 50000
        /\ a.user_id = Alice.user_id
    /\ \E b \in accounts : b.user_id = Bob.user_id
    /\ \E c \in accounts : c.user_id = Admin.user_id

----------------------------------------------------------------------------
(* C20: a request whose token is more than 30 minutes old, is signed with  *)
(* another key, is no JWT, carries no subject, or carries the subject of   *)
(* no existing user is answered 401 without the operation running: every  *)
(* table is left as it was. A token that register or login issued less     *)
(* than 30 minutes ago is accepted, and the operation runs as its user.    *)
C20_TokensExpireAndAreChecked ==
    /\ \A issued \in tokens :
        LET reply == create_account_request(issued.jwt, clock, "Cash", 0)
        IN  /\ clock > issued.issued_at + 30 =>
                reply = Reply(401, "Invalid authentication credentials",
                              tables)
            /\ clock < issued.issued_at + 30 =>
                /\ reply.status = 200
                /\ \E u \in users :
                    /\ Str(u.user_id) = issued.jwt.sub
                    /\ u.email = issued.jwt.email
                    /\ reply = create_account(u, "Cash", 0)
    /\ \A token \in ForgedTokens :
            create_account_request(token, clock, "Cash", 0) =
                Reply(401, "Invalid authentication credentials", tables)

\* a token that was accepted when it was issued has just been refused, more
\* than 30 minutes later, and the account it had created is still the only one
C20_Witness ==
    /\ last.op = "create_account"
    /\ last.status = 401
    /\ \E issued \in tokens :
        /\ clock > issued.issued_at + 30
        /\ \E a \in accounts : Str(a.user_id) = issued.jwt.sub
    /\ ~\E issued \in tokens : clock < issued.issued_at + 30
    /\ Cardinality(accounts) = 1

----------------------------------------------------------------------------
(* C21: in every reachable state no two rows of the user table share an    *)
(* email, and every register of an email that is registered when its       *)
(* INSERT comes, whether it was registered before the request's lookup or  *)
(* by a concurrent request after it, is answered 400 "Email already        *)
(* registered" and adds no user.                                           *)
C21_UniqueEmails ==
    /\ \A u \in users, v \in users : u.email = v.email => u = v
    /\ \A w \in Workers :
        (serving[w].pc = "done" /\ serving[w].op = "register") =>
            \/ serving[w].status = 200
            \/ /\ serving[w].status = 400
               /\ serving[w].detail = "Email already registered"

----------------------------------------------------------------------------
(* C22: an update_transaction that succeeds replaces the transaction's row *)
(* by one of the same id in which each of transaction_name, amount,        *)
(* net_amount and date has the value of the request if the request carries *)
(* the field and its old value if not; every other transaction, and every  *)
(* account, breakdown, tag and tag assignment, is as it was.               *)
C22_UpdateChangesOnlyGivenFields ==
    \A u \in users : \A t \in transactions :
    \A fields \in Updates \cup ReportUpdates :
        LET reply == update_transaction(u, t.transaction_id, fields)
            given(f) == f \in DOMAIN fields
        IN  reply.status = 200 =>
                /\ reply.db.accounts = accounts
                /\ reply.db.breakdowns = breakdowns
                /\ reply.db.tags = tags
                /\ reply.db.assignments = assignments
                /\ reply.db.seq = seq
                /\ \E new \in reply.db.transactions :
                    /\ reply.db.transactions = (transactions \ {t}) \cup {new}
                    /\ new.transaction_id = t.transaction_id
                    /\ new.transaction_name =
                            IF given("transaction_name")
                            THEN fields.transaction_name
                            ELSE t.transaction_name
                    /\ new.amount =
                            IF given("amount") THEN fields.amount
                            ELSE t.amount
                    /\ new.net_amount =
                            IF given("net_amount") THEN fields.net_amount
                            ELSE t.net_amount
                    /\ new.date =
                            IF given("date") THEN fields.date ELSE t.date

\* a regular user has just updated a transaction that has two breakdowns
\* and a tag: its net amount is the request's 0, its breakdowns and its
\* tag are there still, and so is the other transaction
C22_Witness ==
    /\ last.op = "update_transaction"
    /\ last.status = 200
    /\ \E u \in Regular : u.user_id = last.user
    /\ \E t \in transactions :
        /\ Reaches(last.user, t.transaction_id)
        /\ t.transaction_id \notin placeholders
        /\ t.net_amount = 0
        /\ Cardinality(breakdowns_of(t.transaction_id)) = 2
        /\ tags_of_transaction(t.transaction_id) # {}
        /\ transactions \ {t} # {}

----------------------------------------------------------------------------
(* C23 as the specification has it: when create_transaction is refused at  *)
(* a breakdown that is not the first of the request, the breakdown rows of *)
(* the breakdowns before it are in the table afterwards.                   *)
C23_EarlierBreakdownsRemain ==
    \A u \in users : \A r \in Requests :
        (/\ ~target_denied(u, r.target_account_id)
         /\ Len(r.breakdowns) >= 2
         /\ Owns(u.user_id, r.breakdowns[1].transaction_account_id)
         /\ ~Owns(u.user_id, r.breakdowns[2].transaction_account_id))
        => LET reply == create_transaction(u, r)
           IN  /\ reply.status = 403
               /\ \E b \in reply.db.breakdowns \ breakdowns :
                    /\ b.transaction_id = seq.transaction
                    /\ b.transaction_account_id =
                            r.breakdowns[1].transaction_account_id

(* C23, amended: when create_transaction is refused at a breakdown, the    *)
(* first or a later one, what remains of the request is its transaction    *)
(* row alone, with net amount 0: no breakdown row of the request, those of *)
(* the breakdowns before the refused one included, and no tag assignment   *)
(* is in the tables afterwards.                                            *)
C23_OnlyTransactionRowRemains ==
    \A u \in users : \A r \in Requests :
        LET reply == create_transaction(u, r)
            refused == /\ reply.status = 403
                       /\ reply.detail # "Access denied to target account."
        IN  /\ (/\ u \in Regular
                /\ Owns(u.user_id, r.target_account_id)
                /\ \E i \in 1..Len(r.breakdowns) :
                    ~Owns(u.user_id,
                          r.breakdowns[i].transaction_account_id))
               => refused
            /\ refused =>
                /\ reply.db.breakdowns = breakdowns
                /\ reply.db.assignments = assignments
                /\ reply.db.accounts = accounts
                /\ reply.db.tags = tags
                /\ reply.db.transactions = transactions \cup
                        {[transaction_id |-> seq.transaction,
                          transaction_name |-> r.transaction_name,
                          amount |-> r.amount,
                          net_amount |-> 0,
                          date |-> r.date]}
                /\ reply.db.transactions # transactions

\* Alice, who owns account 1 and has a tag, has just been refused at a
\* breakdown on account 2: the transaction row of the request is the only
\* transaction besides the tag's, and it has no breakdown and no tag
C23_Witness ==
    /\ last.op = "create_transaction"
    /\ last.status = 403
    /\ last.detail = "Access denied to breakdown account 2."
    /\ last.user = Alice.user_id
    /\ tags # {}
    /\ \E t \in transactions :
        /\ t.transaction_id \notin placeholders
        /\ t.net_amount = 0
        /\ breakdowns_of(t.transaction_id) = {}
        /\ tags_of_transaction(t.transaction_id) = {}
        /\ \A b \in breakdowns : b.transaction_id \in placeholders

----------------------------------------------------------------------------
(* C24: a create_transaction of a regular user with no breakdowns and a    *)
(* target account of the user's succeeds and adds the transaction row and  *)
(* no breakdown; a transaction without breakdowns never gets one; and      *)
(* while it has none, no regular user has it in get_transactions, and      *)
(* get_transaction_by_id, update_transaction, delete_transaction and       *)
(* assign_tag_to_transaction on its id answer every regular user 404 and   *)
(* write nothing, while an admin's get_transaction_by_id returns it.       *)
unowned == {t \in transactions : breakdowns_of(t.transaction_id) = {}}

C24_Persisted ==
    \A u \in Regular : \A r \in Requests :
        (r.breakdowns = <<>> /\ Owns(u.user_id, r.target_account_id)) =>
            LET reply == create_transaction(u, r)
            IN  /\ reply.status = 200
                /\ reply.db.breakdowns = breakdowns
                /\ \E t \in reply.db.transactions \ transactions :
                        t.transaction_id = seq.transaction

C24_Unreachable ==
    \A t \in unowned :
        /\ \A u \in Regular :
            /\ t \notin get_transactions(u).rows
            /\ get_transaction_by_id(u, t.transaction_id) = Response(404, {})
            /\ \A fields \in Updates :
                    update_transaction(u, t.transaction_id, fields) =
                        Reply(404, "Transaction not found or access denied.",
                              tables)
            /\ delete_transaction(u, t.transaction_id) =
                    Reply(404, "Transaction not found or access denied.",
                          tables)
            /\ \A tag_id \in TagIds :
                    assign_tag_to_transaction(u, t.transaction_id, tag_id) =
                        Reply(404, "Transaction not found or access denied.",
                              tables)
        /\ \A a \in Admins :
                get_transaction_by_id(a, t.transaction_id) =
                    Response(200, {t})

\* C24: such a transaction is persisted, is unreachable to every regular
\* user in every state, and stays without breakdowns at every step
C24_NoBreakdownsIsUnowned ==
    /\ [](C24_Persisted /\ C24_Unreachable)
    /\ [][\A t \in unowned :
            \A b \in breakdowns' : b.transaction_id # t.transaction_id]_vars

\* Alice has just created a transaction without breakdowns, targeting her
\* account; it is in the table beside one of hers that she is shown, and
\* her list does not have it
C24_Witness ==
    /\ last.op = "create_transaction"
    /\ last.status = 200
    /\ last.user = Alice.user_id
    /\ \E t \in unowned : t.transaction_id = seq.transaction - 1
    /\ get_transactions(Alice).rows # {}
    /\ get_transactions(Admin).rows \ get_transactions(Alice).rows # {}

----------------------------------------------------------------------------
(* C25: at every step every account that is in the table stays in it with  *)
(* the owner and the balance create_account gave it, whatever the step's   *)
(* breakdowns earn or spend on it; a create_account only adds its account  *)
(* to the table, and a step of create_transaction, update_transaction,     *)
(* delete_transaction, create_tag or assign_tag_to_transaction, served or  *)
(* refused, leaves the table of accounts as it was.                        *)
C25_AccountsNeverChange ==
    [][/\ accounts \subseteq accounts'
       /\ last'.op # "create_account" => accounts' = accounts]_vars

\* Bob's account of balance 1.00 has a breakdown that spends 4.50 on it and
\* one that earned 5.00, the first one's transaction updated since, and a
\* tag was assigned: the balance is 1.00 still
C25_Witness ==
    /\ last.op = "assign_tag_to_transaction"
    /\ last.status = 200
    /\ \E a \in accounts, b \in breakdowns, c \in breakdowns :
        /\ a.user_id = Bob.user_id
        /\ a.balance = 100
        /\ b.transaction_account_id = a.transaction_account_id
        /\ b.spent_amount = 450
        /\ c.transaction_account_id = a.transaction_account_id
        /\ c.earned_amount = 500
        /\ \E t \in transactions :
            /\ t.transaction_id = b.transaction_id
            /\ t.net_amount = 0

----------------------------------------------------------------------------
(* C26: in every reachable state every breakdown of a transaction is on an *)
(* account that exists, all breakdowns of one transaction are on accounts  *)
(* of one and the same user, so that at most one regular user reaches the  *)
(* transaction, and right after a create_transaction or a create_tag that  *)
(* succeeded that user is its caller.                                      *)
owners_of(transaction_id) ==
    {a.user_id : a \in {a \in accounts :
        \E b \in breakdowns_of(transaction_id) :
            b.transaction_account_id = a.transaction_account_id}}

----------------------------------------------------------------------------
(* C27: a tag that a regular user A created with a create_tag that         *)
(* succeeded, and whose placeholder A still has, is in no other regular    *)
(* user's get_tags and is assigned to no transaction that another regular  *)
(* user reaches: neither B's create_transaction naming the tag nor B's     *)
(* assign_tag_to_transaction attaches it to a transaction of B.            *)
created_by(user_id) ==
    {g \in tags :
        \E ta \in assignments :
            /\ ta.tag_id = g.tag_id
            /\ ta.transaction_id \in placeholders
            /\ Reaches(user_id, ta.transaction_id)}

C27_TagIsolation ==
    \A A \in Regular, B \in Regular :
        A # B =>
            \A g \in created_by(A.user_id) :
                /\ g \notin get_tags(B).rows
                /\ \A ta \in assignments :
                        ta.tag_id = g.tag_id =>
                            ~Reaches(B.user_id, ta.transaction_id)
                /\ \A r \in Requests :
                    LET reply == create_transaction(B, r)
                    IN  \A ta \in reply.db.assignments \ assignments :
                            ta.tag_id # g.tag_id
                /\ \A id \in TransactionIds :
                        assign_tag_to_transaction(B, id, g.tag_id).status
                            # 200

----------------------------------------------------------------------------
(* C28: when two workers serve assign_tag_to_transaction for one           *)
(* (transaction, tag) pair, their lookups and INSERTs coming in any order, *)
(* at most one of the two is answered 200 and the table holds at most one  *)
(* row of the pair.                                                        *)
C28_ConcurrentAssignOnce ==
    /\ \A ta \in assignments, tb \in assignments :
        (ta.transaction_id = tb.transaction_id /\ ta.tag_id = tb.tag_id)
            => ta = tb
    /\ \A v \in Workers, w \in Workers :
        (/\ v # w
         /\ serving[v].op = "assign_tag_to_transaction"
         /\ serving[w].op = "assign_tag_to_transaction"
         /\ serving[v].transaction_id = serving[w].transaction_id
         /\ serving[v].tag_id = serving[w].tag_id
         /\ serving[v].pc = "done"
         /\ serving[w].pc = "done")
        => ~(serving[v].status = 200 /\ serving[w].status = 200)

----------------------------------------------------------------------------
(* C29: get_transactions returns to every caller every transaction of the  *)
(* caller's scope that create_tag did not insert, whatever name            *)
(* create_transaction or update_transaction gave it.                       *)
C29_HidesOnlyPlaceholders ==
    \A u \in users : \A t \in scope(u) :
        t.transaction_id \notin placeholders =>
            t \in get_transactions(u).rows

----------------------------------------------------------------------------
(* C30: in every reachable state every tag assignment is of a tag that     *)
(* exists to a transaction that exists, and every breakdown is on an       *)
(* account that exists; and a delete_transaction that succeeds leaves no   *)
(* tag assignment and no breakdown with the id of the transaction, and     *)
(* get_transaction_by_id on that id answers every caller 404 afterwards.   *)
C30_References ==
    /\ \A ta \in assignments :
        /\ \E g \in tags : g.tag_id = ta.tag_id
        /\ \E t \in transactions : t.transaction_id = ta.transaction_id
    /\ \A b \in breakdowns :
        \E a \in accounts :
            a.transaction_account_id = b.transaction_account_id

C30_AfterDelete ==
    (last'.op = "delete_transaction" /\ last'.status = 200) =>
        /\ transactions' # transactions
        /\ \A t \in transactions \ transactions' :
            /\ \A ta \in assignments' : ta.transaction_id # t.transaction_id
            /\ \A b \in breakdowns' : b.transaction_id # t.transaction_id
            /\ \A u \in users :
                get_transaction_by_id(u, t.transaction_id)' =
                    Response(404, {})

\* C30: the references hold in every state, and every successful delete
\* leaves nothing that refers to the transaction
C30_ReferentialIntegrity ==
    /\ []C30_References
    /\ [][C30_AfterDelete]_vars

\* Alice has just deleted a transaction that had breakdowns and a tag: the
\* breakdowns are there, detached, the tag is there, with its placeholder
\* as its only assignment
C30_Witness ==
    /\ last.op = "delete_transaction"
    /\ last.status = 200
    /\ last.user = Alice.user_id
    /\ \E b \in breakdowns : b.transaction_id = NULL /\ b.spent_amount = 450
    /\ tags # {}
    /\ \A ta \in assignments : ta.transaction_id \in placeholders
    /\ assignments # {}
    /\ seq.assignment > 2

====
